---- MODULE Spec2Model ----
(***************************************************************************)
(* Model of extract_prd.py: read_docx plus the module-level script that    *)
(* checks the input path, extracts the paragraph texts, joins them with    *)
(* '\n', writes them to the output path and prints one message.            *)
(*                                                                         *)
(* A text is a sequence of characters.  The file system holds two paths:   *)
(* the input path (absent, a file python-docx cannot decode, or a document *)
(* with its paragraph texts) and the output path (exists, content).  A run *)
(* of the script is a process; its position is pc, its locals keep the     *)
(* names of the source.  Spec runs the script sequentially (one run after  *)
(* another); SpecConc runs two copies concurrently while the input file    *)
(* may be edited.  File content is the text as it passes Python's text     *)
(* layer (the str handed to f.write / read back in text mode).             *)
(***************************************************************************)
EXTENDS Integers, Sequences, FiniteSets

\* ------------------------------------------------------------- bounds
MaxParas == 2
MaxParaLen == 1
MaxPriorLen == 3
MaxRuns == 2

\* --------------------------------------------------------- characters
NL == "\n"
NUL == "NUL"
ParaChars == {"a", NL}
PriorChar == "z"

file_path == "JB_Platform_PRD_v3.docx"
out_path == "JB_Platform_PRD_v3.txt"

Main == 1
Procs == {1, 2}

VARIABLES inFile, outFile, writers,
          pc, doc, idx, full_text, text, f, console, exc,
          run, outBefore, prevOutcome

fsVars == <<inFile, outFile, writers>>
procVars == <<pc, doc, idx, full_text, text, f, console, exc>>
runVars == <<run, outBefore, prevOutcome>>
vars == <<inFile, outFile, writers,
          pc, doc, idx, full_text, text, f, console, exc,
          run, outBefore, prevOutcome>>

\* ------------------------------------------------------------ domains
SeqsUpTo(S, n) == UNION {[1..k -> S] : k \in 0..n}
ParaTexts == SeqsUpTo(ParaChars, MaxParaLen)
Documents == SeqsUpTo(ParaTexts, MaxParas)
PriorContents == SeqsUpTo({PriorChar}, MaxPriorLen)

Absent == [kind |-> "absent", paras |-> <<>>]
Corrupt == [kind |-> "corrupt", paras |-> <<>>]
Docx(ps) == [kind |-> "docx", paras |-> ps]
InputStates == {Absent, Corrupt} \cup {Docx(ps) : ps \in Documents}

NoFile == [exists |-> FALSE, content |-> <<>>]
File(c) == [exists |-> TRUE, content |-> c]
OutputStates == {NoFile} \cup {File(c) : c \in PriorContents}

\* ------------------------------------------------------ pure functions
\* every paragraph followed by a newline, in place of a separator
RECURSIVE JoinTerminated(_)
JoinTerminated(ps) ==
    IF ps = <<>> THEN <<>> ELSE ps[1] \o <<NL>> \o JoinTerminated(Tail(ps))

\* '\n'.join(full_text)
RECURSIVE Join(_)
Join(ps) ==
    IF ps = <<>> THEN <<>>
    ELSE IF Len(ps) = 1 THEN ps[1]
    ELSE ps[1] \o <<NL>> \o Join(Tail(ps))

\* os.path.exists(file_path)
PathExists(file) == file.kind # "absent"

\* mode 'a' in place of 'w': nothing is cut, the position is the end
OpenForAppend(file) == [file |-> File(file.content), pos |-> Len(file.content)]

\* mode 'r+' in place of 'w': nothing is cut, the position is 0
OpenNoTruncate(file) == [file |-> File(file.content), pos |-> 0]

\* open(path, 'w'): creates the file or truncates it; the position is 0
OpenForWrite(file) == [file |-> File(<<>>), pos |-> 0]

\* a write that ignores the handle's position and lands at the end
PWriteAtEnd(content, off, data) == content \o data

\* the bytes of data land at position off of the file, past the end after
\* a gap of NULs
PWrite(content, off, data) ==
    LET gap == [k \in 1..(off - Len(content)) |-> NUL]
        head == IF off <= Len(content) THEN SubSeq(content, 1, off)
                ELSE content \o gap
        rest == SubSeq(content, off + Len(data) + 1, Len(content))
    IN head \o data \o rest

\* the two console messages, word by word (the f-strings of lines 16, 18)
SuccessMsg == <<"Successfully", "extracted", "text", "to", out_path>>
NotFoundMsg == <<"File", file_path, "not", "found">>

\* --------------------------------------------------------------- Init
Closed == [open |-> FALSE, pos |-> 0]

InitRun(start) ==
    /\ pc = [p \in Procs |-> start[p]]
    /\ doc = [p \in Procs |-> <<>>]
    /\ idx = [p \in Procs |-> 1]
    /\ full_text = [p \in Procs |-> <<>>]
    /\ text = [p \in Procs |-> <<>>]
    /\ f = [p \in Procs |-> Closed]
    /\ console = [p \in Procs |-> <<>>]
    /\ exc = [p \in Procs |-> "none"]

InitFs(inputs, outputs) ==
    /\ inFile \in inputs
    /\ outFile \in outputs
    /\ writers = {}
    /\ run = 1
    /\ outBefore = outFile
    /\ prevOutcome = "none"

\* one run of the script; the second process is never started
Init == InitFs(InputStates, OutputStates) /\ InitRun([p \in Procs |-> IF p = Main THEN "check" ELSE "idle"])

\* two runs of the script started side by side, on documents whose
\* paragraphs are one character long and an output path that is absent or
\* holds the longest prior content
ConcParaTexts == {<<c>> : c \in ParaChars}
ConcInputs == {Absent, Corrupt} \cup {Docx(ps) : ps \in SeqsUpTo(ConcParaTexts, MaxParas)}
ConcOutputs == {NoFile, File([k \in 1..MaxPriorLen |-> PriorChar])}

InitConc == InitFs(ConcInputs, ConcOutputs) /\ InitRun([p \in Procs |-> "check"])

\* ------------------------------------------------------------ actions
\* the test of line 12 the wrong way round
ExistsCheckInverted(p) ==
    /\ pc[p] = "check"
    /\ pc' = [pc EXCEPT ![p] = IF PathExists(inFile) THEN "print_nf" ELSE "read"]
    /\ UNCHANGED <<fsVars, runVars, doc, idx, full_text, text, f, console, exc>>

\* line 12: if os.path.exists(file_path)
ExistsCheck(p) ==
    /\ pc[p] = "check"
    /\ pc' = [pc EXCEPT ![p] = IF PathExists(inFile) THEN "read" ELSE "print_nf"]
    /\ UNCHANGED <<fsVars, runVars, doc, idx, full_text, text, f, console, exc>>

\* the decoder's error caught and reported as a missing file
DocOpenCaught(p) ==
    /\ pc[p] = "read"
    /\ IF inFile.kind = "docx"
       THEN /\ doc' = [doc EXCEPT ![p] = inFile.paras]
            /\ pc' = [pc EXCEPT ![p] = "loop"]
            /\ UNCHANGED exc
       ELSE /\ exc' = [exc EXCEPT ![p] = "decode"]
            /\ pc' = [pc EXCEPT ![p] = "print_nf"]
            /\ UNCHANGED doc
    /\ full_text' = [full_text EXCEPT ![p] = <<>>]
    /\ idx' = [idx EXCEPT ![p] = 1]
    /\ UNCHANGED <<fsVars, runVars, text, f, console>>

\* the output opened (and cut) before the document is decoded
DocOpenAfterTruncate(p) ==
    /\ pc[p] = "read"
    /\ outFile' = File(<<>>)
    /\ IF inFile.kind = "docx"
       THEN /\ doc' = [doc EXCEPT ![p] = inFile.paras]
            /\ pc' = [pc EXCEPT ![p] = "loop"]
            /\ UNCHANGED exc
       ELSE /\ exc' = [exc EXCEPT ![p] = "decode"]
            /\ pc' = [pc EXCEPT ![p] = "error"]
            /\ UNCHANGED doc
    /\ full_text' = [full_text EXCEPT ![p] = <<>>]
    /\ idx' = [idx EXCEPT ![p] = 1]
    /\ UNCHANGED <<inFile, writers, runVars, text, f, console>>

\* line 5: doc = docx.Document(file_path); line 6: full_text = [].
\* python-docx reads the whole package and closes it; a file it cannot
\* decode (or one that is gone by now) raises, and nothing catches it.
DocOpen(p) ==
    /\ pc[p] = "read"
    /\ IF inFile.kind = "docx"
       THEN /\ doc' = [doc EXCEPT ![p] = inFile.paras]
            /\ full_text' = [full_text EXCEPT ![p] = <<>>]
            /\ idx' = [idx EXCEPT ![p] = 1]
            /\ pc' = [pc EXCEPT ![p] = "loop"]
            /\ UNCHANGED exc
       ELSE /\ exc' = [exc EXCEPT ![p] = "decode"]
            /\ pc' = [pc EXCEPT ![p] = "error"]
            /\ UNCHANGED <<doc, full_text, idx>>
    /\ UNCHANGED <<fsVars, runVars, text, f, console>>

\* empty paragraphs left out (if para.text: full_text.append(para.text))
LoopAppendNonEmpty(p) ==
    /\ pc[p] = "loop"
    /\ idx[p] <= Len(doc[p])
    /\ full_text' = [full_text EXCEPT ![p] =
                        IF doc[p][idx[p]] = <<>> THEN @ ELSE Append(@, doc[p][idx[p]])]
    /\ idx' = [idx EXCEPT ![p] = @ + 1]
    /\ UNCHANGED <<fsVars, runVars, pc, doc, text, f, console, exc>>

\* lines 7-8: for para in doc.paragraphs: full_text.append(para.text)
LoopAppend(p) ==
    /\ pc[p] = "loop"
    /\ idx[p] <= Len(doc[p])
    /\ full_text' = [full_text EXCEPT ![p] = Append(@, doc[p][idx[p]])]
    /\ idx' = [idx EXCEPT ![p] = @ + 1]
    /\ UNCHANGED <<fsVars, runVars, pc, doc, text, f, console, exc>>

\* line 9: return '\n'.join(full_text); line 13: text = read_docx(file_path)
LoopReturn(p) ==
    /\ pc[p] = "loop"
    /\ idx[p] > Len(doc[p])
    /\ text' = [text EXCEPT ![p] = Join(full_text[p])]
    /\ pc' = [pc EXCEPT ![p] = "open"]
    /\ UNCHANGED <<fsVars, runVars, doc, idx, full_text, f, console, exc>>

\* line 14: with open('JB_Platform_PRD_v3.txt', 'w', encoding='utf-8') as f.
\* The open may be refused (permissions); then no handle exists and the
\* file is untouched.
OpenOut(p) ==
    /\ pc[p] = "open"
    /\ \E ok \in BOOLEAN :
         IF ok
         THEN /\ outFile' = OpenForWrite(outFile).file
              /\ writers' = {}
              /\ f' = [f EXCEPT ![p] = [open |-> TRUE, pos |-> OpenForWrite(outFile).pos]]
              /\ pc' = [pc EXCEPT ![p] = "write"]
              /\ UNCHANGED exc
         ELSE /\ exc' = [exc EXCEPT ![p] = "open"]
              /\ pc' = [pc EXCEPT ![p] = "error"]
              /\ UNCHANGED <<outFile, writers, f>>
    /\ UNCHANGED <<inFile, runVars, doc, idx, full_text, text, console>>

\* line 15: f.write(text).  The text reaches the file in one write at the
\* handle's position: all of it, or (disk full, I/O error) only its first k
\* characters, and then the write raises inside the with block.
WriteOut(p) ==
    /\ pc[p] = "write"
    /\ \E k \in 0..Len(text[p]) :
         /\ outFile' = File(PWrite(outFile.content, f[p].pos, SubSeq(text[p], 1, k)))
         /\ writers' = IF k > 0 THEN writers \cup {p} ELSE writers
         /\ f' = [f EXCEPT ![p].pos = @ + k]
         /\ IF k = Len(text[p])
            THEN /\ pc' = [pc EXCEPT ![p] = "close"]
                 /\ UNCHANGED exc
            ELSE /\ exc' = [exc EXCEPT ![p] = "write"]
                 /\ pc' = [pc EXCEPT ![p] = "unwind"]
    /\ UNCHANGED <<inFile, runVars, doc, idx, full_text, text, console>>

\* line 14-15: the with block is left normally: f is closed
CloseOut(p) ==
    /\ pc[p] = "close"
    /\ f' = [f EXCEPT ![p].open = FALSE]
    /\ pc' = [pc EXCEPT ![p] = "print_ok"]
    /\ UNCHANGED <<fsVars, runVars, doc, idx, full_text, text, console, exc>>

\* no with block: the exception leaves the handle open
UnwindLeak(p) ==
    /\ pc[p] = "unwind"
    /\ pc' = [pc EXCEPT ![p] = "error"]
    /\ UNCHANGED <<fsVars, runVars, doc, idx, full_text, text, f, console, exc>>

\* the exception of the write swallowed: the script goes on to line 16
UnwindSwallow(p) ==
    /\ pc[p] = "unwind"
    /\ f' = [f EXCEPT ![p].open = FALSE]
    /\ pc' = [pc EXCEPT ![p] = "print_ok"]
    /\ UNCHANGED <<fsVars, runVars, doc, idx, full_text, text, console, exc>>

\* line 14-15: the with block is left by the exception of the write: f is
\* closed and the exception goes on to the top level
Unwind(p) ==
    /\ pc[p] = "unwind"
    /\ f' = [f EXCEPT ![p].open = FALSE]
    /\ pc' = [pc EXCEPT ![p] = "error"]
    /\ UNCHANGED <<fsVars, runVars, doc, idx, full_text, text, console, exc>>

\* line 16: print(f"Successfully extracted text to JB_Platform_PRD_v3.txt")
PrintSuccess(p) ==
    /\ pc[p] = "print_ok"
    /\ console' = [console EXCEPT ![p] = Append(@, SuccessMsg)]
    /\ pc' = [pc EXCEPT ![p] = "done"]
    /\ UNCHANGED <<fsVars, runVars, doc, idx, full_text, text, f, exc>>

\* lines 17-18: else: print(f"File {file_path} not found")
PrintNotFound(p) ==
    /\ pc[p] = "print_nf"
    /\ console' = [console EXCEPT ![p] = Append(@, NotFoundMsg)]
    /\ pc' = [pc EXCEPT ![p] = "done"]
    /\ UNCHANGED <<fsVars, runVars, doc, idx, full_text, text, f, exc>>

\* how a run ended
Outcome(p) ==
    IF pc[p] = "error" THEN "error"
    ELSE IF pc[p] = "done" /\ console[p] = <<SuccessMsg>> THEN "success"
    ELSE IF pc[p] = "done" /\ console[p] = <<NotFoundMsg>> THEN "notfound"
    ELSE IF pc[p] = "done" THEN "other"
    ELSE "running"

Terminated(p) == pc[p] \in {"done", "error"}

\* the script is started again once the run before it has ended: a new
\* process, with fresh locals and an empty console
Rerun ==
    /\ Terminated(Main)
    /\ run < MaxRuns
    /\ run' = run + 1
    /\ prevOutcome' = Outcome(Main)
    /\ outBefore' = outFile
    /\ pc' = [pc EXCEPT ![Main] = "check"]
    /\ doc' = [doc EXCEPT ![Main] = <<>>]
    /\ idx' = [idx EXCEPT ![Main] = 1]
    /\ full_text' = [full_text EXCEPT ![Main] = <<>>]
    /\ text' = [text EXCEPT ![Main] = <<>>]
    /\ f' = [f EXCEPT ![Main] = Closed]
    /\ console' = [console EXCEPT ![Main] = <<>>]
    /\ exc' = [exc EXCEPT ![Main] = "none"]
    /\ UNCHANGED fsVars

\* somebody saves another version of the input document while the runs go
\* on.  The script reads the document only at line 5, so the versions that
\* matter are those in place when a run is about to decode it.
EditTargets(file) ==
    IF file.kind # "docx" THEN {}
    ELSE {Docx(ps) : ps \in SeqsUpTo(ConcParaTexts, MaxParas)} \ {file}

ModifyInput ==
    /\ \E p \in Procs : pc[p] = "read"
    /\ \E new \in EditTargets(inFile) : inFile' = new
    /\ UNCHANGED <<outFile, writers, procVars, runVars>>

Step(p) ==
    \/ ExistsCheck(p)
    \/ DocOpen(p)
    \/ LoopAppend(p)
    \/ LoopReturn(p)
    \/ OpenOut(p)
    \/ WriteOut(p)
    \/ CloseOut(p)
    \/ Unwind(p)
    \/ PrintSuccess(p)
    \/ PrintNotFound(p)

Next == Step(Main) \/ Rerun

Spec == Init /\ [][Next]_vars

NextConc == (\E p \in Procs : Step(p)) \/ ModifyInput

SpecConc == InitConc /\ [][NextConc]_vars

\* ------------------------------------------------- reading the output
\* str.split('\n') of a file content: the pieces between the newlines
HasNL(s) == \E i \in 1..Len(s) : s[i] = NL
FirstNL(s) == CHOOSE i \in 1..Len(s) : s[i] = NL /\ \A j \in 1..(i - 1) : s[j] # NL

RECURSIVE Split(_)
Split(s) ==
    IF ~HasNL(s) THEN <<s>>
    ELSE <<SubSeq(s, 1, FirstNL(s) - 1)>> \o Split(SubSeq(s, FirstNL(s) + 1, Len(s)))

CountNL(s) == Cardinality({i \in 1..Len(s) : s[i] = NL})

RECURSIVE SumNL(_)
SumNL(ps) == IF ps = <<>> THEN 0 ELSE CountNL(ps[1]) + SumNL(Tail(ps))

\* where paragraph i starts in a text that holds the paragraphs one after
\* another with one separator character between neighbours (0-based)
RECURSIVE Offset(_, _)
Offset(ps, i) == IF i = 1 THEN 0 ELSE Offset(ps, i - 1) + Len(ps[i - 1]) + 1

Succeeded(p) == Outcome(p) = "success"

\* ---------------------------------------------------------------- C1
\* C1 as stated: after a successful run the output, split on '\n', has
\* exactly N lines for a document of N paragraphs (N = 0 and empty
\* paragraphs included), line i being paragraph i.
C1_LinesAreParagraphs ==
    Succeeded(Main) => Split(outFile.content) = inFile.paras

\* C1 amended: after a successful run on a document of N >= 1 paragraphs none
\* of which contains a newline, the output split on '\n' is exactly the N
\* paragraph texts in order; a document without paragraphs gives the empty
\* file, which splits into one empty line; in general the number of lines is
\* N plus the number of newlines inside the paragraphs.
C1_LinesAreParagraphsAmended ==
    Succeeded(Main) =>
        LET ps == inFile.paras
            lines == Split(outFile.content)
        IN /\ (ps # <<>> /\ \A i \in 1..Len(ps) : ~HasNL(ps[i])) => lines = ps
           /\ ps = <<>> => lines = <<(<<>>)>>
           /\ ps # <<>> => Len(lines) = Len(ps) + SumNL(ps)

C1_Witness ==
    /\ Succeeded(Main)
    /\ inFile.paras = <<(<<>>), <<"a">>>>
    /\ Split(outFile.content) = <<(<<>>), <<"a">>>>

\* ---------------------------------------------------------------- C2
\* C2: when the input exists and decodes, the content written is the
\* paragraph texts in document order, each at its place, with exactly one
\* newline between neighbours and nothing before, between or after: empty
\* paragraphs keep their (empty) place, no newline follows the last
\* paragraph, and no paragraphs give the empty content.
C2_ContentIsJoinedParagraphs ==
    Succeeded(Main) =>
        LET ps == inFile.paras
            c == outFile.content
            N == Len(ps)
        IN /\ outFile.exists
           /\ Len(c) = IF N = 0 THEN 0 ELSE Offset(ps, N) + Len(ps[N])
           /\ \A i \in 1..N :
                SubSeq(c, Offset(ps, i) + 1, Offset(ps, i) + Len(ps[i])) = ps[i]
           /\ \A i \in 1..(N - 1) : c[Offset(ps, i) + Len(ps[i]) + 1] = NL

C2_Witness ==
    /\ Succeeded(Main)
    /\ inFile.paras = <<<<"a">>, (<<>>)>>
    /\ outFile.content = <<"a", NL>>

\* ---------------------------------------------------------------- C3
\* C3: with no file at the input path, the run never opens, creates, cuts
\* or writes the output file (it is as it was before the run), prints the
\* 'not found' message, which holds the input file name, and ends normally,
\* with no exception raised.
C3_MissingInputLeavesOutput ==
    inFile.kind = "absent" =>
        /\ outFile = outBefore
        /\ ~f[Main].open
        /\ exc[Main] = "none"
        /\ pc[Main] \in {"check", "print_nf", "done"}
        /\ Terminated(Main) =>
             /\ pc[Main] = "done"
             /\ Len(console[Main]) = 1
             /\ console[Main][1] = NotFoundMsg
             /\ \E i \in 1..Len(console[Main][1]) : console[Main][1][i] = file_path

C3_Witness ==
    /\ inFile.kind = "absent"
    /\ pc[Main] = "done"
    /\ console[Main] = <<NotFoundMsg>>
    /\ outBefore = File(<<PriorChar, PriorChar>>)
    /\ outFile = outBefore

\* ---------------------------------------------------------------- C4
\* C4: when the output path held a file before the run, a successful run
\* leaves exactly the newly extracted text in it and nothing of what was there
\* (no merge, no append), also when the new text is shorter than the old
\* content or empty.
C4_OutputFullyOverwritten ==
    (Succeeded(Main) /\ outBefore.exists) =>
        /\ outFile.exists
        /\ outFile.content = text[Main]
        /\ (run = 1 => \A i \in 1..Len(outFile.content) : outFile.content[i] # PriorChar)

C4_Witness ==
    /\ Succeeded(Main)
    /\ outBefore = File(<<PriorChar, PriorChar, PriorChar>>)
    /\ Len(text[Main]) = 1
    /\ outFile.content = text[Main]

\* ---------------------------------------------------------------- C5
\* C5: a second run of the script on the unchanged input document leaves the
\* output file exactly as the first run left it, when both succeed.
C5_SecondRunSameOutput ==
    (run >= 2 /\ prevOutcome = "success" /\ Succeeded(Main)) => outFile = outBefore

C5_Witness ==
    /\ run = 2
    /\ prevOutcome = "success"
    /\ Succeeded(Main)
    /\ outBefore.content = <<"a", NL, "a">>
    /\ outFile = outBefore

\* ---------------------------------------------------------------- C6
\* C6: a run ends in exactly one of three ways: the success message (naming
\* the output file) and a normal end, the 'not found' message (naming the
\* input file) and a normal end, or an unhandled error and no message.  The
\* success message appears only once the whole text is in the file and the
\* file is closed, never after a failed decode, open or write.
C6_ExactlyOneOutcome ==
    /\ Len(console[Main]) <= 1
    /\ pc[Main] = "done" =>
         /\ Len(console[Main]) = 1
         /\ console[Main][1] \in {SuccessMsg, NotFoundMsg}
         /\ exc[Main] = "none"
    /\ pc[Main] = "error" => (console[Main] = <<>> /\ exc[Main] # "none")
    /\ exc[Main] # "none" => console[Main] = <<>>
    /\ console[Main] = <<SuccessMsg>> =>
         /\ SuccessMsg[Len(SuccessMsg)] = out_path
         /\ inFile.kind = "docx"
         /\ outFile = File(text[Main])
         /\ ~f[Main].open
    /\ console[Main] = <<NotFoundMsg>> => inFile.kind = "absent"

C6_Witness ==
    /\ pc[Main] = "error"
    /\ exc[Main] = "write"
    /\ console[Main] = <<>>
    /\ Len(text[Main]) = 3

\* ---------------------------------------------------------------- C7
\* C7: the output file's handle is open only between the open and the end of
\* the with block; it is closed when the write completed and when the write
\* failed, before the error goes on, and no run ends with it open.
C7_HandleReleased ==
    \A p \in Procs :
        /\ f[p].open => pc[p] \in {"write", "close", "unwind"}
        /\ Terminated(p) => ~f[p].open

C7_Witness ==
    /\ pc[Main] = "error"
    /\ exc[Main] = "write"
    /\ ~f[Main].open
    /\ outFile.exists
    /\ outFile.content # text[Main]

\* ---------------------------------------------------------------- C8
\* C8: an error of the decoder or of the write is caught nowhere: once
\* raised, the run only leaves the with block and ends in the error state,
\* prints nothing, and executes no further step (no retry); a document that
\* cannot be decoded never gets past the decoding.
C8_ErrorsPropagate ==
    /\ [](/\ exc[Main] # "none" =>
               (pc[Main] \in {"unwind", "error"} /\ console[Main] = <<>>)
          /\ exc[Main] \in {"decode", "open"} => pc[Main] = "error"
          /\ (inFile.kind = "corrupt" /\ pc[Main] \notin {"check", "read"}) =>
               (pc[Main] = "error" /\ exc[Main] = "decode"))
    /\ [][(pc[Main] = "error" /\ run' = run) => UNCHANGED vars]_vars
    /\ [][(pc[Main] = "unwind") => (pc'[Main] = "error" /\ outFile' = outFile)]_vars

C8_Witness ==
    /\ pc[Main] = "error"
    /\ exc[Main] = "decode"
    /\ inFile.kind = "corrupt"
    /\ console[Main] = <<>>

\* --------------------------------------------------------------- C10
\* C10: the output file is opened (and cut) only after the whole document has
\* been extracted; when the input exists but cannot be decoded the output
\* file is neither created nor changed, and what was there is intact when
\* the run ends with the error.
C10_DecodeFailureLeavesOutput ==
    /\ inFile.kind = "corrupt" =>
         /\ outFile = outBefore
         /\ ~f[Main].open
         /\ Terminated(Main) => pc[Main] = "error"
    /\ (f[Main].open \/ outFile # outBefore) =>
         /\ inFile.kind = "docx"
         /\ full_text[Main] = inFile.paras
         /\ pc[Main] \notin {"check", "read", "loop", "open"}

C10_Witness ==
    /\ inFile.kind = "corrupt"
    /\ pc[Main] = "error"
    /\ outBefore = File(<<PriorChar, PriorChar, PriorChar>>)
    /\ outFile = outBefore

\* ---------------------------------------------------------------- C9
\* x laid over y from the start: x, then what of y lies beyond x
Overlay(x, y) == x \o SubSeq(y, Len(x) + 1, Len(y))

BothSucceeded == \A p \in Procs : Succeeded(p)

\* C9 as stated: after two concurrent successful runs the output holds the
\* complete text of one of the two runs, never a mixture.
C9_LastWriteWins ==
    BothSucceeded => outFile.content \in {text[p] : p \in Procs}

\* C9 amended: after two concurrent successful runs the output holds the
\* complete text of a run if that run alone wrote after the last truncation
\* (and is empty if none did); if both wrote after the last truncation it holds
\* the text of one run followed by what of the other run's text lies beyond
\* its length, which is a mixture when the later writer's text is the shorter.
C9_LastWriteWinsAmended ==
    BothSucceeded =>
        /\ outFile.exists
        /\ writers = {} => outFile.content = <<>>
        /\ \A p \in Procs : writers = {p} => outFile.content = text[p]
        /\ writers = Procs =>
             \E p, q \in Procs : p # q /\ outFile.content = Overlay(text[p], text[q])

C9_Witness ==
    /\ BothSucceeded
    /\ writers = Procs
    /\ Len(text[1]) # Len(text[2])
    /\ outFile.content \notin {text[p] : p \in Procs}

====
